---- MODULE Spec2Model ----
(***************************************************************************)
(* Upload / metadata reconciliation of the photography backend.            *)
(*                                                                         *)
(* Two deployments of the same four image endpoints are modelled:          *)
(*   variant = "file" : src/index.js (and src/unnamed/part_001): multer    *)
(*                      diskStorage + the in-memory object imageData that   *)
(*                      is rewritten to imageData.json after each change;  *)
(*   variant = "db"   : src/unnamed/part_000: multer CloudinaryStorage +    *)
(*                      the mongoose model Image.                          *)
(* The requests in flight form a bag; the awaits of the async handlers and *)
(* the boundary between the multer middleware and the route handler are    *)
(* the points where requests interleave.  resp is the response sent by the *)
(* last step.                                                              *)
(***************************************************************************)
EXTENDS Integers, Sequences, FiniteSets, Bags, TLC

(* ---------------------------- bounds ----------------------------------- *)

\* requests (upload, delete, get, list) the server takes in one behaviour; any
\* number of them may be in flight at the same time
MaxRequests == 3

\* calls to the blob store, the file system or the database that fail in one
\* behaviour
MaxFaults == 1


(* ---------------------------- inputs ----------------------------------- *)

\* imageKey values of requests; "constructor" and "__proto__" are also names
\* of properties every JavaScript object inherits from Object.prototype
Keys == {"hero-1", "constructor", "__proto__"}

\* req.body.imageKey missing or empty: falsy in `if (!imageKey)`
NoKey == ""

\* names whose value is read from Object.prototype when the object has no own
\* property of that name
InheritedKeys == {"constructor", "__proto__"}

\* names whose assignment obj[name] = value runs the setter of
\* Object.prototype: the value becomes the prototype of obj and no own
\* property is created
SetterKeys == {"__proto__"}

ImagePrefix == <<"i", "m", "a", "g", "e", "/">>

MimeJpeg == ImagePrefix \o <<"j", "p", "g">>

MimePng == ImagePrefix \o <<"p", "n", "g">>

MimeText == <<"t", "e", "x", "t", "/", "p", "l", "a", "i", "n">>

\* no file part in the multipart body
NoFile == [originalname |-> "", mimetype |-> <<>>, size |-> 0]

JpegFile == [originalname |-> "hero.jpg", mimetype |-> MimeJpeg, size |-> 2]

PngFile == [originalname |-> "hero.png", mimetype |-> MimePng, size |-> 3]

TextFile == [originalname |-> "notes.txt", mimetype |-> MimeText, size |-> 1]

\* the <<imageKey, file>> pairs of the upload requests
UploadInputs ==
    {<<"hero-1", JpegFile>>, <<"hero-1", PngFile>>, <<"constructor", JpegFile>>,
     <<"__proto__", JpegFile>>,
     <<NoKey, JpegFile>>, <<"hero-1", NoFile>>, <<"hero-1", TextFile>>}

\* req.file / req.files.image[0] undefined
NoFilename == 0

(* ------------------------- pure helpers -------------------------------- *)

\* String.prototype.startsWith
StartsWith(s, prefix) ==
    /\ Len(s) >= Len(prefix)
    /\ SubSeq(s, 1, Len(prefix)) = prefix

\* multer fileFilter: file.mimetype.startsWith("image/")
FileFilter(file) == StartsWith(file.mimetype, ImagePrefix)

\* `/uploads/${req.file.filename}`
UploadsUrl(filename) == <<"uploads", filename>>

\* uploadedFile.path of CloudinaryStorage: the delivery URL of the asset
CloudinaryUrl(filename) == <<"res.cloudinary.com", "adriana-photography", filename>>

\* path.basename(url): the last path segment
Basename(url) == url[Len(url)]

\* a value of imageData in the flat-file variant
FileRecord(file, filename, now) ==
    [url |-> UploadsUrl(filename),
     originalName |-> file.originalname,
     size |-> file.size,
     mimetype |-> file.mimetype,
     uploadedAt |-> now]

NoRecord ==
    [url |-> <<>>, originalName |-> "", size |-> 0, mimetype |-> <<>>,
     uploadedAt |-> 0]

\* ImageDoc with publicId read from a property the file object does not have
ImageDocNoPublicId(key, file, filename, now) ==
    [imageKey |-> key,
     url |-> CloudinaryUrl(filename),
     publicId |-> NoFilename,
     originalName |-> file.originalname,
     size |-> file.size,
     mimetype |-> file.mimetype,
     uploadedAt |-> now]

\* the update document of Image.findOneAndUpdate
ImageDoc(key, file, filename, now) ==
    [imageKey |-> key,
     url |-> CloudinaryUrl(filename),
     publicId |-> filename,
     originalName |-> file.originalname,
     size |-> file.size,
     mimetype |-> file.mimetype,
     uploadedAt |-> now]

NoDoc ==
    [imageKey |-> NoKey, url |-> <<>>, publicId |-> NoFilename,
     originalName |-> "", size |-> 0, mimetype |-> <<>>, uploadedAt |-> 0]

\* the response shape of get/listAll in the database variant
Projection(doc) ==
    [url |-> doc.url,
     publicId |-> doc.publicId,
     originalName |-> doc.originalName,
     size |-> doc.size,
     mimetype |-> doc.mimetype,
     uploadedAt |-> doc.uploadedAt]

(* ---- JavaScript objects: own properties in insertion order ------------ *)
\* an object is a sequence of [name, value] own properties, together with its
\* prototype: NoRecord stands for Object.prototype, its prototype at creation

OwnNames(obj) == {obj[n].name : n \in 1..Len(obj)}

OwnIndex(obj, key) == CHOOSE n \in 1..Len(obj) : obj[n].name = key

\* obj[key] as an rvalue: own property, else the prototype chain; a value of
\* type "inherited" is a function or object of the language, not a record
Lookup(obj, proto, key) ==
    IF key \in OwnNames(obj)
    THEN [type |-> "object", rec |-> obj[OwnIndex(obj, key)].value]
    ELSE IF key \in SetterKeys /\ proto # NoRecord
         THEN [type |-> "object", rec |-> proto]
         ELSE IF key \in InheritedKeys
              THEN [type |-> "inherited", rec |-> NoRecord]
              ELSE [type |-> "undefined", rec |-> NoRecord]

\* truthiness of a looked-up value
Truthy(v) == v.type # "undefined"

\* the own property key of obj is created or overwritten
DefineOwn(obj, key, value) ==
    IF key \in OwnNames(obj)
    THEN [obj EXCEPT ![OwnIndex(obj, key)].value = value]
    ELSE Append(obj, [name |-> key, value |-> value])

\* obj[key] = value: the own properties of obj afterwards
Assign(obj, key, value) ==
    IF key \in SetterKeys /\ key \notin OwnNames(obj) THEN obj
    ELSE DefineOwn(obj, key, value)

\* obj[key] = value: the prototype of obj afterwards
AssignProto(obj, proto, key, value) ==
    IF key \in SetterKeys /\ key \notin OwnNames(obj) THEN value
    ELSE proto

\* delete obj[key]
DeleteProp(obj, key) ==
    SelectSeq(obj, LAMBDA p : p.name # key)

\* JSON.stringify(imageData): the members "key": value in property order
Stringify(obj) == [n \in 1..Len(obj) |-> <<obj[n].name, obj[n].value>>]

RECURSIVE ParseMembers(_, _)
\* JSON.parse: members are defined left to right, a repeated name overwrites
ParseMembers(text, obj) ==
    IF text = <<>> THEN obj
    ELSE ParseMembers(Tail(text), DefineOwn(obj, Head(text)[1], Head(text)[2]))

Parse(text) == ParseMembers(text, <<>>)

(* ---- the Image collection: a set of documents ------------------------- *)

Matching(coll, key) == {d \in coll : d.imageKey = key}

\* Image.findOne({ imageKey: key })
FindOne(coll, key) ==
    IF Matching(coll, key) = {} THEN NoDoc
    ELSE CHOOSE d \in Matching(coll, key) : TRUE

\* FindOneAndUpdate as a plain insert: Image.create(doc)
FindOneAndUpdateInserts(coll, key, doc) == coll \cup {doc}

\* Image.findOneAndUpdate({ imageKey }, doc, { upsert: true, new: true })
FindOneAndUpdate(coll, key, doc) ==
    IF Matching(coll, key) = {} THEN coll \cup {doc}
    ELSE (coll \ {FindOne(coll, key)}) \cup {doc}

\* Image.deleteOne({ imageKey: key })
DeleteOne(coll, key) ==
    IF Matching(coll, key) = {} THEN coll
    ELSE coll \ {FindOne(coll, key)}

RECURSIVE SortDesc(_)
\* Image.find({}).sort({ uploadedAt: -1 })
SortDesc(coll) ==
    IF coll = {} THEN <<>>
    ELSE LET top == CHOOSE d \in coll :
                        \A e \in coll : e.uploadedAt <= d.uploadedAt
         IN <<top>> \o SortDesc(coll \ {top})

RECURSIVE ToObject(_, _)
\* images.forEach((img) => { imageData[img.imageKey] = {...} })
ToObject(docs, obj) ==
    IF docs = <<>> THEN obj
    ELSE ToObject(Tail(docs),
                  Assign(obj, Head(docs).imageKey, Projection(Head(docs))))

(* ------------------------------ state ---------------------------------- *)

VARIABLES
    variant,     \* "file" | "db": the deployment, fixed at start-up
    imageData,   \* flat-file variant: `let imageData = {}`, its own properties
    imageProto,  \* flat-file variant: the prototype of imageData
    diskFile,    \* flat-file variant: imageData.json
    images,      \* database variant: the Image collection
    blobs,       \* blob store: files under uploads/ or Cloudinary assets
    nextBlob,    \* the next unique filename / public id
    clock,       \* new Date()
    inflight,    \* the bag of requests in flight
    resp,        \* the response sent by the last step, NoResp if it sent none
    everStored,  \* history: blobs the blob store has successfully stored
    unlinked,    \* history: <<key, blob>> for blobs removed by a delete of key
    overwritten, \* history: blobs whose record an upload answered 200 replaced
    roundTrip,   \* history: what the successful uploads returned, see NoRoundTrip
    deletedOk,   \* history: keys whose last metadata change was a delete answered 200
    count        \* history: the requests taken and the calls failed so far

vars == <<variant, imageData, imageProto, diskFile, images, blobs, nextBlob,
          clock, inflight, resp, everStored, unlinked, overwritten, roundTrip,
          deletedOk, count>>

NoDiskFile == [exists |-> FALSE, text |-> <<>>]

\* a request in flight: pc is the statement it resumes at, file and filename
\* are req.file of an upload, publicId is image.publicId of a delete; absent
\* and blobError are history: what the blob store call of the request met
NewReq ==
    [op |-> "none", pc |-> "", key |-> NoKey, file |-> NoFile,
     filename |-> NoFilename, publicId |-> NoFilename,
     absent |-> FALSE, blobError |-> FALSE]

\* a response: status, the message of its body and, for a successful upload,
\* imageUrl and publicId.  The other fields are history of the request:
\*   file       the file part it carried
\*   blob       the blob it put into the blob store
\*   wrote      it changed the metadata store
\*   replaced   its upload overwrote a record of its key
\*   hadRecord  its delete found a record stored under its key
\*   attempted  its delete reached the blob deletion
\*   absent     the blob was not in the blob store at that attempt
\*   blobError  its call to the blob store failed
\*   metaError  its call to the metadata store failed
NoResp ==
    [op |-> "none", key |-> NoKey, status |-> 0, message |-> "",
     imageUrl |-> <<>>, publicId |-> NoFilename,
     file |-> NoFile, blob |-> NoFilename, wrote |-> FALSE, replaced |-> FALSE,
     hadRecord |-> FALSE, attempted |-> FALSE, absent |-> FALSE,
     blobError |-> FALSE, metaError |-> FALSE]

\* imageUrl and publicId of the 200 response of an upload; NoReturn: none
NoReturn == [url |-> <<>>, publicId |-> NoFilename]

\* roundTrip.clean holds while every request answered so far is a read or an
\* upload answered 200 whose imageKey no earlier upload had; roundTrip.of[k] is
\* then what the upload of k returned.  Any other upload response and any
\* delete request end the round trip for good.
NoRoundTrip == [clean |-> FALSE, of |-> [k \in Keys |-> NoReturn]]

\* roundTrip after the step that sent the response a (NoResp: none)
AfterResponse(h, a) ==
    IF a.op = "upload" /\ a.status = 200 /\ h.clean /\ h.of[a.key] = NoReturn
    THEN [h EXCEPT !.of[a.key] = [url |-> a.imageUrl, publicId |-> a.publicId]]
    ELSE IF a.op \in {"upload", "delete"} THEN NoRoundTrip
    ELSE h

Init ==
    /\ variant \in {"file", "db"}
    /\ imageData = <<>>
    /\ imageProto = NoRecord
    /\ diskFile = NoDiskFile
    /\ images = {}
    /\ blobs = {}
    /\ nextBlob = 1
    /\ clock = 1
    /\ inflight = EmptyBag
    /\ resp = NoResp
    /\ everStored = {}
    /\ unlinked = {}
    /\ overwritten = {}
    /\ roundTrip = [clean |-> TRUE, of |-> [k \in Keys |-> NoReturn]]
    /\ deletedOk = [k \in Keys |-> FALSE]
    /\ count = [requests |-> 0, faults |-> 0]

Enter(r) == inflight (+) SetToBag({r})

Leave(r) == inflight (-) SetToBag({r})

\* res.status(status).json({ ... message ... }) for request a
Answer(a, status, message) == [a EXCEPT !.status = status, !.message = message]

\* the environment sends a request while requests remain (arrives) and lets a
\* call fail (ok = FALSE) while failures remain (failed)
Environment(arrives, failed) ==
    /\ arrives => count.requests < MaxRequests
    /\ failed => count.faults < MaxFaults
    /\ count' = [requests |-> count.requests + (IF arrives THEN 1 ELSE 0),
                 faults |-> count.faults + (IF failed THEN 1 ELSE 0)]

\* saveImageData(): fs.writeFileSync(imageData.json, JSON.stringify(imageData))
SaveImageData(obj) == [exists |-> TRUE, text |-> Stringify(obj)]

\* start-up: imageData = JSON.parse(fs.readFileSync(imageData.json))
LoadImageData(file) == IF file.exists THEN Parse(file.text) ELSE <<>>

(* --------------------------- readers ----------------------------------- *)

\* the body of GET /api/images when the store answers
ListAll ==
    IF variant = "file" THEN imageData
    ELSE ToObject(SortDesc(images), <<>>)

\* the status of GET /api/images/:key when the store answers
GetStatus(key) ==
    IF variant = "file"
    THEN IF Truthy(Lookup(imageData, imageProto, key)) THEN 200 ELSE 404
    ELSE IF FindOne(images, key) # NoDoc THEN 200 ELSE 404

\* the records in the body of GET /api/images/:key when the store answers
GetBody(key) ==
    IF variant = "file"
    THEN LET v == Lookup(imageData, imageProto, key) IN
         IF v.type = "object" THEN {v.rec} ELSE {}
    ELSE LET image == FindOne(images, key) IN
         IF image # NoDoc THEN {Projection(image)} ELSE {}

\* GET /api/images/:key
GetImage(key, ok) ==
    /\ variant = "file" => ok
    /\ Environment(TRUE, ~ok)
    /\ LET a == [NoResp EXCEPT !.op = "get", !.key = key, !.metaError = ~ok]
       IN resp' = IF ~ok THEN Answer(a, 500, "Failed to fetch image")
                  ELSE IF GetStatus(key) = 200 THEN Answer(a, 200, "")
                  ELSE Answer(a, 404, "Image not found")
    /\ UNCHANGED <<variant, imageData, imageProto, diskFile, images, blobs, nextBlob,
                   clock, inflight, everStored, unlinked, deletedOk>>
    /\ UNCHANGED roundTrip
    /\ UNCHANGED overwritten

\* GET /api/images
ListImages(ok) ==
    /\ variant = "file" => ok
    /\ Environment(TRUE, ~ok)
    /\ LET a == [NoResp EXCEPT !.op = "list", !.metaError = ~ok]
       IN resp' = IF ~ok THEN Answer(a, 500, "Failed to fetch images")
                  ELSE Answer(a, 200, "")
    /\ UNCHANGED <<variant, imageData, imageProto, diskFile, images, blobs, nextBlob,
                   clock, inflight, everStored, unlinked, deletedOk>>
    /\ UNCHANGED roundTrip
    /\ UNCHANGED overwritten

(* ---------------------------- upload ----------------------------------- *)

\* MulterResult with the error of the storage engine dropped: the route
\* handler runs with req.file set although nothing was stored
MulterResultIgnoresStorageError(file, stored) ==
    IF file = NoFile THEN "next"
    ELSE IF ~FileFilter(file) THEN "fileFilter error"
    ELSE "next(file)"

\* what the multer middleware of POST /api/upload does with a request whose
\* file part is file, stored telling whether the storage engine stored it:
\* "next" without req.file, "next(file)" with req.file set, or next(err) with
\* the error of fileFilter or of the storage engine
MulterResult(file, stored) ==
    IF file = NoFile THEN "next"
    ELSE IF ~FileFilter(file) THEN "fileFilter error"
    ELSE IF ~stored THEN "storage error"
    ELSE "next(file)"

\* upload.single("image") / upload.fields([{ name: "image", maxCount: 1 }]).
\* No error middleware is installed, so next(err) ends in the framework's
\* final handler, which answers 500 without entering the route handler.
Multer(key, file, ok) ==
    /\ LET accepted == file # NoFile /\ FileFilter(file)
           stored == accepted /\ ok
           m == MulterResult(file, stored)
           r == [NewReq EXCEPT !.op = "upload", !.pc = "handler",
                               !.key = key, !.file = file,
                               !.blobError = accepted /\ ~ok]
           a == [NoResp EXCEPT !.op = "upload", !.key = key, !.file = file,
                               !.blobError = accepted /\ ~ok]
       IN /\ ~accepted => ok
          /\ Environment(TRUE, accepted /\ ~ok)
          /\ inflight' = IF m = "next" THEN Enter(r)
                         ELSE IF m = "next(file)"
                              THEN Enter([r EXCEPT !.filename = nextBlob])
                              ELSE inflight
          /\ resp' = IF m = "fileFilter error"
                     THEN Answer(a, 500, "Only image files are allowed!")
                     ELSE IF m = "storage error"
                          THEN Answer(a, 500, "storage engine error")
                          ELSE NoResp
          /\ blobs' = IF stored THEN blobs \cup {nextBlob} ELSE blobs
          /\ everStored' = IF stored THEN everStored \cup {nextBlob} ELSE everStored
          /\ nextBlob' = IF accepted THEN nextBlob + 1 ELSE nextBlob
    /\ UNCHANGED <<variant, imageData, imageProto, diskFile, images, clock, unlinked,
                   deletedOk>>
    /\ roundTrip' = AfterResponse(roundTrip, resp')
    /\ UNCHANGED overwritten

\* the validation at the head of the route handler
UploadCheck(r) ==
    IF r.filename = NoFilename THEN "No file uploaded"
    ELSE IF r.key = NoKey THEN "Image key is required"
    ELSE "valid"

\* the blob of the record stored under key, which an upload to key replaces
ReplacedBlob(key) ==
    IF variant = "file"
    THEN {Basename(rec.url) : rec \in GetBody(key)}
    ELSE {d.publicId : d \in Matching(images, key)}

\* BlobsAfterUpload of a handler that cleans up after an overwrite: the blob
\* of the replaced record is removed
BlobsAfterUploadRemovesReplaced(store, replaced) == store \ replaced

\* the blob store after the route handler of an upload, replaced being the
\* blob of the record it overwrites: the handler makes no call to the blob
\* store, neither fs.unlinkSync nor cloudinary.uploader.destroy
BlobsAfterUpload(store, replaced) == store

\* the route handler of POST /api/upload
UploadHandler(r, ok) ==
    /\ r.op = "upload"
    /\ r.pc = "handler"
    /\ inflight' = Leave(r)
    /\ UploadCheck(r) # "valid" => ok
    /\ Environment(FALSE, ~ok)
    /\ LET a == [NoResp EXCEPT !.op = "upload", !.key = r.key, !.file = r.file,
                               !.blob = IF r.filename \in everStored THEN r.filename
                                        ELSE NoFilename,
                               !.blobError = r.blobError,
                               !.metaError = ~ok]
       IN
       IF UploadCheck(r) # "valid"
       THEN /\ resp' = Answer(a, 400, UploadCheck(r))
            /\ UNCHANGED <<imageData, imageProto, diskFile, images, clock, deletedOk>>
       ELSE IF variant = "file"
       THEN /\ imageData' = Assign(imageData, r.key,
                                   FileRecord(r.file, r.filename, clock))
            /\ imageProto' = AssignProto(imageData, imageProto, r.key,
                                          FileRecord(r.file, r.filename, clock))
            /\ diskFile' = IF ok THEN SaveImageData(imageData') ELSE diskFile
            /\ clock' = clock + 1
            /\ deletedOk' = [deletedOk EXCEPT ![r.key] = FALSE]
            /\ resp' = IF ok
                       THEN [Answer(a, 200, "success")
                             EXCEPT !.imageUrl = UploadsUrl(r.filename),
                                    !.wrote = TRUE,
                                    !.replaced = Lookup(imageData, imageProto,
                                                        r.key).type = "object"]
                       ELSE [Answer(a, 500, "File upload failed")
                             EXCEPT !.wrote = TRUE,
                                    !.replaced = Lookup(imageData, imageProto,
                                                        r.key).type = "object"]
            /\ UNCHANGED images
       ELSE /\ images' = IF ok
                         THEN FindOneAndUpdate(images, r.key,
                                  ImageDoc(r.key, r.file, r.filename, clock))
                         ELSE images
            /\ clock' = clock + 1
            /\ deletedOk' = IF ok THEN [deletedOk EXCEPT ![r.key] = FALSE]
                            ELSE deletedOk
            /\ resp' = IF ok
                       THEN [Answer(a, 200, "success")
                             EXCEPT !.imageUrl = CloudinaryUrl(r.filename),
                                    !.publicId = r.filename,
                                    !.wrote = TRUE,
                                    !.replaced = Matching(images, r.key) # {}]
                       ELSE Answer(a, 500, "File upload failed")
            /\ UNCHANGED <<imageData, imageProto, diskFile>>
    /\ blobs' = BlobsAfterUpload(blobs, ReplacedBlob(r.key))
    /\ UNCHANGED <<variant, nextBlob, everStored, unlinked>>
    /\ roundTrip' = AfterResponse(roundTrip, resp')
    /\ overwritten' = IF resp'.status = 200 /\ resp'.replaced
                      THEN overwritten \cup ReplacedBlob(r.key)
                      ELSE overwritten

(* ---------------------------- delete ----------------------------------- *)

\* the statement at which the flat-file delete handler of a stored key ends:
\* exists is fs.existsSync(filePath), unlinkOk and saveOk tell whether
\* fs.unlinkSync and fs.writeFileSync return; a throw is not caught by the
\* handler and the framework's final handler answers 500
DeleteReach(exists, unlinkOk, saveOk) ==
    IF exists /\ ~unlinkOk THEN "unlinkSync"
    ELSE IF ~saveOk THEN "writeFileSync"
    ELSE "res.json"

\* DELETE /api/images/:key of the flat-file variant: one synchronous handler
DeleteFile(key, unlinkOk, saveOk) ==
    /\ variant = "file"
    /\ LET v == Lookup(imageData, imageProto, key)
           filename == Basename(v.rec.url)
           exists == v.type = "object" /\ filename \in blobs
           reach == DeleteReach(exists, unlinkOk, saveOk)
           a == [NoResp EXCEPT !.op = "delete", !.key = key,
                               !.hadRecord = v.type = "object"]
       IN /\ ~exists => unlinkOk
          /\ (v.type # "object" \/ ~unlinkOk) => saveOk
          /\ Environment(TRUE, ~unlinkOk \/ ~saveOk)
          /\ IF ~Truthy(v)
             THEN /\ resp' = Answer(a, 404, "Image not found")
                  /\ UNCHANGED <<imageData, imageProto, diskFile, blobs, unlinked, deletedOk>>
             ELSE IF v.type # "object"
             THEN \* imageData[key].url is undefined: path.basename throws
                  /\ resp' = Answer(a, 500, "TypeError")
                  /\ UNCHANGED <<imageData, imageProto, diskFile, blobs, unlinked, deletedOk>>
             ELSE IF reach = "unlinkSync"
             THEN /\ resp' = [Answer(a, 500, "unlink error")
                              EXCEPT !.attempted = TRUE, !.absent = ~exists,
                                     !.blobError = ~unlinkOk]
                  /\ UNCHANGED <<imageData, imageProto, diskFile, blobs, unlinked, deletedOk>>
             ELSE /\ blobs' = IF exists /\ unlinkOk THEN blobs \ {filename} ELSE blobs
                  /\ unlinked' = IF exists /\ unlinkOk
                                 THEN unlinked \cup {<<key, filename>>}
                                 ELSE unlinked
                  /\ imageData' = DeleteProp(imageData, key)
                  /\ UNCHANGED imageProto
                  /\ diskFile' = IF saveOk THEN SaveImageData(imageData')
                                 ELSE diskFile
                  /\ deletedOk' = [deletedOk EXCEPT ![key] = reach = "res.json"]
                  /\ resp' = [(IF reach = "res.json"
                               THEN Answer(a, 200, "Image deleted successfully")
                               ELSE Answer(a, 500, "write error"))
                              EXCEPT !.attempted = TRUE,
                                     !.absent = ~exists,
                                     !.blobError = exists /\ ~unlinkOk,
                                     !.metaError = ~saveOk,
                                     !.wrote = TRUE]
    /\ UNCHANGED <<variant, images, nextBlob, clock, inflight, everStored>>
    /\ roundTrip' = NoRoundTrip
    /\ UNCHANGED overwritten

\* DELETE /api/images/:key of the database variant, up to the first await:
\* const image = await Image.findOne({ imageKey: key })
DeleteFindOne(key, ok) ==
    /\ variant = "db"
    /\ Environment(TRUE, ~ok)
    /\ LET image == FindOne(images, key)
           a == [NoResp EXCEPT !.op = "delete", !.key = key,
                               !.hadRecord = Matching(images, key) # {},
                               !.metaError = ~ok]
       IN IF ~ok
          THEN /\ resp' = Answer(a, 500, "Failed to delete image")
               /\ UNCHANGED inflight
          ELSE IF image # NoDoc
          THEN /\ resp' = NoResp
               /\ inflight' = Enter([NewReq EXCEPT !.op = "delete", !.pc = "destroy",
                                                   !.key = key,
                                                   !.publicId = image.publicId])
          ELSE /\ resp' = Answer(a, 404, "Image not found")
               /\ UNCHANGED inflight
    /\ UNCHANGED <<variant, imageData, imageProto, diskFile, images, blobs, nextBlob,
                   clock, everStored, unlinked, deletedOk>>
    /\ roundTrip' = NoRoundTrip
    /\ UNCHANGED overwritten

\* AfterDestroy with the rejection of destroy swallowed
AfterDestroySwallowsError(calls, ok) == "deleteOne"

\* where the handler goes after `if (image.publicId) await
\* cloudinary.uploader.destroy(image.publicId)`: calls tells whether destroy
\* is called, ok whether its promise resolves
AfterDestroy(calls, ok) ==
    IF calls /\ ~ok THEN "catch" ELSE "deleteOne"

\* the blob deletion of the database variant; an asset that is not there
\* resolves with result "not found"
DeleteDestroy(r, ok) ==
    /\ r.op = "delete"
    /\ r.pc = "destroy"
    /\ LET calls == r.publicId # NoFilename
           a == [NoResp EXCEPT !.op = "delete", !.key = r.key,
                               !.hadRecord = TRUE, !.attempted = calls,
                               !.blobError = calls /\ ~ok]
       IN /\ ~calls => ok
          /\ Environment(FALSE, ~ok)
          /\ blobs' = IF calls /\ ok THEN blobs \ {r.publicId} ELSE blobs
          /\ unlinked' = IF calls /\ ok /\ r.publicId \in blobs
                         THEN unlinked \cup {<<r.key, r.publicId>>}
                         ELSE unlinked
          /\ IF AfterDestroy(calls, ok) = "catch"
             THEN /\ inflight' = Leave(r)
                  /\ resp' = Answer(a, 500, "Failed to delete image")
             ELSE /\ inflight' = Leave(r) (+) SetToBag({[r EXCEPT
                                     !.pc = "deleteOne",
                                     !.absent = calls /\ r.publicId \notin blobs,
                                     !.blobError = calls /\ ~ok]})
                  /\ resp' = NoResp
    /\ UNCHANGED <<variant, imageData, imageProto, diskFile, images, nextBlob, clock,
                   everStored, deletedOk>>
    /\ UNCHANGED roundTrip
    /\ UNCHANGED overwritten

\* await Image.deleteOne({ imageKey: key }), then the 200 response
DeleteDeleteOne(r, ok) ==
    /\ r.op = "delete"
    /\ r.pc = "deleteOne"
    /\ inflight' = Leave(r)
    /\ Environment(FALSE, ~ok)
    /\ LET a == [NoResp EXCEPT !.op = "delete", !.key = r.key,
                               !.hadRecord = TRUE,
                               !.attempted = r.publicId # NoFilename,
                               !.absent = r.absent,
                               !.blobError = r.blobError,
                               !.metaError = ~ok]
       IN
       IF ok
       THEN /\ images' = DeleteOne(images, r.key)
            /\ deletedOk' = [deletedOk EXCEPT ![r.key] = TRUE]
            /\ resp' = [Answer(a, 200, "Image deleted successfully")
                        EXCEPT !.wrote = Matching(images, r.key) # {}]
       ELSE /\ resp' = Answer(a, 500, "Failed to delete image")
            /\ UNCHANGED <<images, deletedOk>>
    /\ UNCHANGED <<variant, imageData, imageProto, diskFile, blobs, nextBlob, clock,
                   everStored, unlinked>>
    /\ UNCHANGED roundTrip
    /\ UNCHANGED overwritten

(* ---------------------------- restart ---------------------------------- *)

\* the process stops and starts again: requests in flight are lost and the
\* flat-file variant reloads imageData from imageData.json
Restart ==
    /\ imageData' = IF variant = "file" THEN LoadImageData(diskFile) ELSE imageData
    /\ imageProto' = IF variant = "file" THEN NoRecord ELSE imageProto
    /\ inflight' = EmptyBag
    /\ resp' = NoResp
    /\ UNCHANGED <<variant, diskFile, images, blobs, nextBlob, clock,
                   everStored, unlinked, deletedOk, count>>
    /\ UNCHANGED roundTrip
    /\ UNCHANGED overwritten

(* ------------------------- specification ------------------------------- *)

Next ==
    \/ \E u \in UploadInputs, ok \in BOOLEAN : Multer(u[1], u[2], ok)
    \/ \E r \in BagToSet(inflight), ok \in BOOLEAN : UploadHandler(r, ok)
    \/ \E key \in Keys, unlinkOk \in BOOLEAN, saveOk \in BOOLEAN :
          DeleteFile(key, unlinkOk, saveOk)
    \/ \E key \in Keys, ok \in BOOLEAN : DeleteFindOne(key, ok)
    \/ \E r \in BagToSet(inflight), ok \in BOOLEAN : DeleteDestroy(r, ok)
    \/ \E r \in BagToSet(inflight), ok \in BOOLEAN : DeleteDeleteOne(r, ok)
    \/ \E key \in Keys, ok \in BOOLEAN : GetImage(key, ok)
    \/ \E ok \in BOOLEAN : ListImages(ok)
    \/ Restart

Spec == Init /\ [][Next]_vars

(* ------------------------------ claims --------------------------------- *)

\* the blob a record refers to: the filename segment of its url in the
\* flat-file variant, its publicId in the database variant
BlobOf(rec) == IF variant = "file" THEN Basename(rec.url) ELSE rec.publicId

\* the records of key that get or listAll return
VisibleRecords(key) ==
    LET list == ListAll
    IN GetBody(key)
           \cup {list[n].value : n \in {m \in 1..Len(list) : list[m].name = key}}

\* the blobs that the records of the metadata store refer to, in memory, in
\* imageData.json and in the collection
MetadataBlobs ==
    {Basename(imageData[n].value.url) : n \in 1..Len(imageData)}
        \cup (IF imageProto # NoRecord THEN {Basename(imageProto.url)} ELSE {})
        \cup {Basename(diskFile.text[n][2].url) : n \in 1..Len(diskFile.text)}
        \cup {d.publicId : d \in images}

\* C1 as stated: every record visible to readers refers to a blob that is in
\* the blob store, in every reachable state of both variants, the
\* intermediate states of a delete request included.
C1_VisibleRecordHasBlob ==
    \A k \in Keys : \A rec \in VisibleRecords(k) : BlobOf(rec) \in blobs

\* C1 amended: every record visible to readers refers to a blob that an upload
\* stored, and that blob is in the blob store unless a delete request for the
\* record's own key has removed it.
C1_VisibleRecordBlobStoredOrDeleted ==
    \A k \in Keys : \A rec \in VisibleRecords(k) :
        /\ BlobOf(rec) \in everStored
        /\ BlobOf(rec) \in blobs \/ <<k, BlobOf(rec)>> \in unlinked

C1_Witness ==
    \E k \in Keys : \E rec \in VisibleRecords(k) :
        /\ BlobOf(rec) \notin blobs
        /\ <<k, BlobOf(rec)>> \in unlinked

\* C2 as stated: an upload without a file part or without an imageKey is
\* answered 400 and writes nothing: it stores no blob and leaves the metadata
\* store alone (the blob store itself not failing).
C2_InvalidUploadWritesNothing ==
    (/\ resp.op = "upload"
     /\ resp.file = NoFile \/ resp.key = NoKey
     /\ ~resp.blobError)
        => /\ resp.status = 400
           /\ resp.blob = NoFilename
           /\ ~resp.wrote

\* C3 as stated: an upload whose mime type does not start with "image/" is
\* answered 400, and neither store is called or changed.
C3_NonImageRejected400 ==
    (/\ resp.op = "upload"
     /\ resp.file # NoFile
     /\ ~FileFilter(resp.file))
        => /\ resp.status = 400
           /\ resp.blob = NoFilename
           /\ ~resp.wrote

\* C4: the blob write of an upload completes before its metadata write
\* begins: the route handler runs only with a stored blob, no record of the
\* metadata store refers to a blob that was not stored, and an upload whose
\* blob write failed writes no metadata.
C4_MetadataOnlyAfterBlobStored ==
    /\ MetadataBlobs \subseteq everStored
    /\ \A r \in BagToSet(inflight) :
           (r.op = "upload" /\ r.filename # NoFilename) => r.filename \in everStored
    /\ (resp.op = "upload" /\ resp.wrote) => resp.blob \in everStored
    /\ (resp.op = "upload" /\ resp.blobError) => ~resp.wrote

C4_Witness ==
    /\ resp.op = "upload"
    /\ resp.wrote
    /\ resp.blob \in MetadataBlobs

\* at most one record per imageKey, in memory, in the collection and in the
\* listing
AtMostOnePerKey ==
    \A k \in Keys :
        /\ Cardinality({n \in 1..Len(imageData) : imageData[n].name = k}) <= 1
        /\ Cardinality(Matching(images, k)) <= 1
        /\ Cardinality({n \in 1..Len(ListAll) : ListAll[n].name = k}) <= 1

\* in the state a successful upload leaves (resp is its response and the
\* handler has advanced the clock by one), there is exactly one visible record
\* of its key and all fields of that record are those of this upload
UploadWins ==
    (resp.op = "upload" /\ resp.status = 200) =>
        /\ resp.key \in OwnNames(ListAll)
        /\ \E rec \in VisibleRecords(resp.key) :
               /\ VisibleRecords(resp.key) = {rec}
               /\ rec.url = resp.imageUrl
               /\ BlobOf(rec) = resp.blob
               /\ variant = "db" => rec.publicId = resp.publicId
               /\ rec.originalName = resp.file.originalname
               /\ rec.size = resp.file.size
               /\ rec.mimetype = resp.file.mimetype
               /\ rec.uploadedAt = clock - 1

\* C5 as stated: there is at most one record per imageKey, and a successful upload to a
\* key that already has a record leaves exactly one record of that key, with
\* every field from this upload, still listed by listAll.
C5_OneRecordPerKeyLastWriteWins ==
    AtMostOnePerKey /\ UploadWins

\* C6 as stated: an upload whose metadata write fails after the blob was
\* stored is answered 500, its blob stays in the blob store, and readers see
\* the metadata they saw before the request.
C6_FailedMetadataWriteInvisible ==
    [][(resp'.op = "upload" /\ resp'.metaError) =>
           /\ resp'.status = 500
           /\ resp'.blob \in blobs'
           /\ ListAll' = ListAll
           /\ \A k \in Keys : GetBody(k)' = GetBody(k)]_vars

\* C7: a delete whose blob deletion fails although the blob is there is
\* answered 500 and leaves the metadata store as it was: get of the key
\* returns the same record as before.
C7_BlobDeleteFailureKeepsRecord ==
    [][(resp'.op = "delete" /\ resp'.blobError) =>
           /\ resp'.status = 500
           /\ ~resp'.wrote
           /\ UNCHANGED <<imageData, imageProto, diskFile, images>>
           /\ \A k \in Keys : GetBody(k)' = GetBody(k)]_vars

C7_Witness ==
    /\ resp.op = "delete"
    /\ resp.blobError
    /\ resp.status = 500
    /\ GetBody(resp.key) # {}

\* C8 as stated: a delete of a key that has no record is answered 404 and
\* changes neither the metadata store nor the blob store (the lookup itself
\* not failing).
C8_DeleteUnknownKey404 ==
    [][(resp'.op = "delete" /\ ~resp'.hadRecord /\ ~resp'.metaError) =>
           /\ resp'.status = 404
           /\ UNCHANGED <<imageData, imageProto, diskFile, images, blobs>>]_vars

\* C9 as stated: a delete removes the record only after it has attempted the blob
\* deletion, and a blob that is already absent is no error: unless the
\* removal of the record itself fails, the request removes the record and
\* answers 200.
C9_RecordRemovedAfterBlobAttempt ==
    [][resp'.op = "delete" =>
           /\ resp'.wrote => resp'.attempted
           /\ (resp'.absent /\ ~resp'.metaError) =>
                  /\ resp'.status = 200
                  /\ \A k \in Keys :
                         k = resp'.key => VisibleRecords(k)' = {}]_vars

\* C10 as stated: after a delete of key k was answered 200 and no upload for
\* k has written since, get of k answers 404 and k is no key of listAll.
C10_DeletedKeyNotFound ==
    \A k \in Keys :
        deletedOk[k] => /\ GetStatus(k) = 404
                        /\ k \notin OwnNames(ListAll)


\* C11 as stated: while only uploads answered 200, with pairwise distinct
\* imageKeys, have changed an empty store, listAll contains exactly the keys of
\* those uploads, each with the url (and, in the database variant, the
\* publicId) its upload returned; with no upload it is the empty mapping, and
\* the listing is answered 200 when the store answers.
C11_ListAllRoundTrip ==
    /\ roundTrip.clean =>
           /\ OwnNames(ListAll) = {k \in Keys : roundTrip.of[k] # NoReturn}
           /\ \A n \in 1..Len(ListAll) :
                  /\ ListAll[n].value.url = roundTrip.of[ListAll[n].name].url
                  /\ variant = "db" =>
                         ListAll[n].value.publicId = roundTrip.of[ListAll[n].name].publicId
    /\ (resp.op = "list" /\ ~resp.metaError) => resp.status = 200


\* C12: in the database variant, however uploads to the same imageKey
\* interleave, the collection holds at most one document per key, every
\* document is whole (its url is the one of its publicId), and in the state an
\* upsert leaves, the one document of its key is the update document of this
\* upload in every field: the upsert that lands last wins, with no merge.
C12_ConcurrentUploadsLastWriterWins ==
    variant = "db" =>
        /\ \A k \in Keys : Cardinality(Matching(images, k)) <= 1
        /\ \A d \in images : d.url = CloudinaryUrl(d.publicId)
        /\ (resp.op = "upload" /\ resp.status = 200) =>
               Matching(images, resp.key) =
                   {ImageDoc(resp.key, resp.file, resp.blob, clock - 1)}

\* two uploads to one key were in flight together and the one whose blob was
\* stored first upserted last
C12_Witness ==
    /\ variant = "db"
    /\ resp.op = "upload"
    /\ resp.status = 200
    /\ resp.replaced
    /\ resp.blob = 1
    /\ \E d \in Matching(images, resp.key) : d.publicId = 1 /\ 2 \in everStored


\* C13 as stated: in the flat-file variant, between requests imageData.json is
\* the serialization of the whole in-memory mapping, also after a request that
\* was answered with an error: a restart reloads a mapping that has the same
\* own properties and answers every lookup as the mapping before it did.
C13_DiskFileIsWholeMapping ==
    variant = "file" =>
        /\ LoadImageData(diskFile) = imageData
        /\ \A k \in Keys :
               Lookup(LoadImageData(diskFile), NoRecord, k)
                   = Lookup(imageData, imageProto, k)


\* C14: no upload removes a blob, so the blob of a record that an upload to
\* the same key replaces stays in the blob store; a blob leaves the store only
\* in a delete request, one blob per request, and it is the blob of the
\* record that request looked up under its key (the current record of the
\* key in the flat-file variant), never the blob of an earlier record.
C14_OverwriteKeepsOldBlob ==
    [][\A b \in blobs \ blobs' :
           \E k \in Keys :
               /\ blobs' = blobs \ {b}
               /\ unlinked' = unlinked \cup {<<k, b>>}
               /\ IF variant = "file"
                  THEN /\ resp'.op = "delete"
                       /\ resp'.key = k
                       /\ \E rec \in GetBody(k) : BlobOf(rec) = b
                       /\ b \notin overwritten
                  ELSE \E r \in BagToSet(inflight) :
                           /\ r.op = "delete"
                           /\ r.pc = "destroy"
                           /\ r.key = k
                           /\ r.publicId = b]_vars

\* a delete answered 200 has removed the blob of the current record of its
\* key, and the blob of the record that an upload had replaced is still in
\* the blob store, referenced by no record
C14_Witness ==
    /\ resp.op = "delete"
    /\ resp.status = 200
    /\ \E b \in overwritten :
           /\ b \in blobs
           /\ b \notin MetadataBlobs
    /\ \E b \in everStored : <<resp.key, b>> \in unlinked


\* C15 as stated: in the database variant, however a delete request
\* interleaves with uploads to its key, the document a delete answered 200
\* removes is the document it looked up: its publicId is the one the request
\* asked the blob store to destroy, and its blob is not left in the blob store.
C15_DeleteRemovesLookedUpRecord ==
    [][(variant = "db" /\ resp'.op = "delete" /\ resp'.status = 200) =>
           \A d \in images \ images' :
               /\ d.publicId \notin blobs'
               /\ \E r \in BagToSet(inflight) :
                      /\ r.op = "delete"
                      /\ r.pc = "deleteOne"
                      /\ r.key = d.imageKey
                      /\ r.publicId = d.publicId]_vars


\* C16 as stated: in the flat-file variant a delete handler runs as one step,
\* so of two delete requests for the same stored key, with no upload to the
\* key between them and no call failing, the first is answered 200 and the
\* second 404, and a blob is unlinked at most once.
C16_SecondDeleteAnswers404 ==
    [][(variant = "file" /\ resp'.op = "delete"
            /\ ~resp'.blobError /\ ~resp'.metaError) =>
           /\ resp'.hadRecord => resp'.status = 200
           /\ \A k \in Keys :
                  (resp'.key = k /\ deletedOk[k]) => resp'.status = 404
           /\ \A u \in unlinked' \ unlinked :
                  u[2] \in blobs /\ u[2] \notin blobs']_vars

====
